---- MODULE Spec2Model ----
(***************************************************************************)
(* Model of pls/table.py: the column selection (get_columns), the table    *)
(* skeleton (get_table) and the output pipeline (write_output).            *)
(*                                                                         *)
(* Encodings.  A Python Optional list (args.details) is the record         *)
(* [some, toks]: some = FALSE is None, otherwise toks is the set of the    *)
(* list's tokens (the code only tests membership and truthiness).          *)
(* args.export is None (FALSE) or a path (TRUE).  An empty attrs dict is   *)
(* the empty function <<>>.  A RowData dict is a function from the keys it *)
(* holds to their cell values; a node whose table_row is None is the       *)
(* record [present |-> FALSE].                                             *)
(***************************************************************************)
EXTENDS Naturals, Sequences, FiniteSets, TLC

VARIABLES
    args,       \* pls.args.args: details, icon, no_align, export
    platform,   \* sys.platform
    state,      \* pls.state.state: is_git_managed
    pc,         \* position of control inside write_output
    table,      \* the rich Table built by get_table and filled by write_output
    console,    \* the module-level Console: record flag and what it printed
    stdout,     \* the lines written to standard output, in order
    out_file,   \* the export file: handle open?, content written?
    raised,     \* TRUE once an exception has left write_output
    all_nodes   \* the entries of all_nodes the loop has consumed, in order

vars ==
    <<args, platform, state, pc, table, console, stdout, out_file, raised,
      all_nodes>>

----------------------------------------------------------------------------
(* Bounds of the model *)

\* most tokens in args.details in the pipeline specification
MaxDetails == 1

\* most nodes passed to write_output
MaxNodes == 2

----------------------------------------------------------------------------
(* Inputs *)

\* the values --details accepts, and one token the program does not know
DetailTokens ==
    {"inode", "links", "type", "perms", "user", "group", "size",
     "ctime", "mtime", "atime", "git", "+", "bogus"}

Platforms == {"linux", "win32"}

IconTypes == {"NONE", "NERD"}

\* keys a RowData may hold: one that is always selected and one that is
\* selected only when the details ask for it
RowKeys == {"name", "size"}

\* the pre-rendered cell value a RowData holds for a key
CellValue(key) == "v_" \o key

None == [some |-> FALSE, toks |-> {}]

NodeRows ==
    {[present |-> FALSE, data |-> <<>>]} \cup
    {[present |-> TRUE, data |-> [k \in K |-> CellValue(k)]] : K \in SUBSET RowKeys}

ArgsOf(D, A, E) ==
    {[details |-> d, icon |-> i, no_align |-> a, export |-> e] :
        d \in D, i \in IconTypes, a \in A, e \in E}

AllDetails == {None} \cup {[some |-> TRUE, toks |-> T] : T \in SUBSET DetailTokens}

\* the tokens the pipeline specification draws args.details from: the
\* wildcard, columns of four different groups and the unknown token
PipelineTokens == {"+", "perms", "user", "size", "git", "bogus"}

BoundedDetails ==
    {None} \cup
    {[some |-> TRUE, toks |-> T] :
        T \in {U \in SUBSET PipelineTokens : Cardinality(U) <= MaxDetails}}

----------------------------------------------------------------------------
(* column_spec_map *)

\* column_spec_map without its spacer entry
column_spec_map_no_spacer ==
    [key \in {"inode", "links", "type", "perms", "user", "group",
              "size", "ctime", "mtime", "atime", "git", "icon", "name"} |->
        [name |-> key, attrs |-> <<>>]]

column_spec_map ==
    [key \in {"spacer", "inode", "links", "type", "perms", "user", "group",
              "size", "ctime", "mtime", "atime", "git", "icon", "name"} |->
        CASE key = "spacer" -> [name |-> " ", attrs |-> <<>>]
          [] key = "inode"  -> [name |-> "inode", attrs |-> <<>>]
          [] key = "links"  -> [name |-> "Link#", attrs |-> [justify |-> "right"]]
          [] key = "type"   -> [name |-> "", attrs |-> <<>>]
          [] key = "perms"  -> [name |-> "Permissions", attrs |-> <<>>]
          [] key = "user"   -> [name |-> "User", attrs |-> <<>>]
          [] key = "group"  -> [name |-> "Group", attrs |-> <<>>]
          [] key = "size"   -> [name |-> "Size", attrs |-> [justify |-> "right"]]
          [] key = "ctime"  -> [name |-> "Created at", attrs |-> <<>>]
          [] key = "mtime"  -> [name |-> "Modified at", attrs |-> <<>>]
          [] key = "atime"  -> [name |-> "Accessed at", attrs |-> <<>>]
          [] key = "git"    -> [name |-> "Git", attrs |-> <<>>]
          [] key = "icon"   -> [name |-> "", attrs |-> [width |-> 2]]
          [] key = "name"   -> [name |-> IF args.no_align THEN "Name" ELSE " Name",
                                attrs |-> <<>>]]

----------------------------------------------------------------------------
(* get_columns *)

\* truthiness of args.details: neither None nor the empty list
details_truthy == args.details.some /\ args.details.toks # {}

\* column_in_details with type granted by a request for perms
column_in_details_type_with_perms(col_name) ==
    \/ col_name \in args.details.toks
    \/ "+" \in args.details.toks
    \/ (col_name = "type" /\ "perms" \in args.details.toks)

column_in_details(col_name) ==
    col_name \in args.details.toks \/ "+" \in args.details.toks

\* list.insert(i, x) with 0 <= i <= len(list)
Insert(list, i, x) ==
    SubSeq(list, 1, i) \o <<x>> \o SubSeq(list, i + 1, Len(list))

\* col_groups with [user, group] inserted at index 3, after [size]
col_groups_insert_3 ==
    LET base == << <<"inode", "links">>, <<"type", "perms">>, <<"size">>,
                   <<"ctime", "mtime", "atime">> >>
        owned == IF platform # "win32"
                 THEN SubSeq(base, 1, 3) \o << <<"user", "group">> >>
                          \o SubSeq(base, 4, Len(base))
                 ELSE base
    IN  IF state.is_git_managed THEN Append(owned, <<"git">>) ELSE owned

\* col_groups without the platform test
col_groups_any_platform ==
    LET base == << <<"inode", "links">>, <<"type", "perms">>,
                   <<"user", "group">>, <<"size">>,
                   <<"ctime", "mtime", "atime">> >>
    IN  IF state.is_git_managed THEN Append(base, <<"git">>) ELSE base

\* col_groups without the is_git_managed test
col_groups_always_git ==
    LET base == << <<"inode", "links">>, <<"type", "perms">>, <<"size">>,
                   <<"ctime", "mtime", "atime">> >>
        owned == IF platform # "win32"
                 THEN SubSeq(base, 1, 2) \o << <<"user", "group">> >>
                          \o SubSeq(base, 3, Len(base))
                 ELSE base
    IN  Append(owned, <<"git">>)

\* col_groups after the platform and git adjustments (lines 63-72)
col_groups ==
    LET base == << <<"inode", "links">>, <<"type", "perms">>, <<"size">>,
                   <<"ctime", "mtime", "atime">> >>
        owned == IF platform # "win32"
                 THEN Insert(base, 2, <<"user", "group">>)
                 ELSE base
    IN  IF state.is_git_managed THEN Append(owned, <<"git">>) ELSE owned

filtered_group(col_group) ==
    SelectSeq(col_group, LAMBDA col : column_in_details(col))

\* name_group with the icon test inverted
name_group_inverted ==
    IF args.icon = "NONE" THEN <<"icon", "name">> ELSE <<"name">>

name_group ==
    IF args.icon # "NONE" THEN <<"icon", "name">> ELSE <<"name">>

\* selected_col_groups as it stands at line 81
selected_col_groups ==
    LET detail_groups ==
            IF details_truthy
            THEN [i \in 1..Len(col_groups) |-> filtered_group(col_groups[i])]
            ELSE <<>>
    IN  Append(detail_groups, name_group)

\* the loop of lines 83-89, from the group at position index (1-based) on
RECURSIVE flatten_from(_, _)
flatten_from(groups, index) ==
    IF index > Len(groups) THEN <<>>
    ELSE LET col_group == groups[index]
             emitted == IF Len(col_group) = 0 THEN <<>>
                        ELSE IF index # Len(groups)
                             THEN Append(col_group, "spacer")
                             ELSE col_group
         IN  emitted \o flatten_from(groups, index + 1)

\* the loop of lines 83-89 without the skip of empty groups
RECURSIVE flatten_no_skip(_, _)
flatten_no_skip(groups, index) ==
    IF index > Len(groups) THEN <<>>
    ELSE LET col_group == groups[index]
             emitted == IF index # Len(groups)
                        THEN Append(col_group, "spacer")
                        ELSE col_group
         IN  emitted \o flatten_no_skip(groups, index + 1)

flattened_cols_no_skip(groups) == flatten_no_skip(groups, 1)

flattened_cols(groups) == flatten_from(groups, 1)

get_columns == flattened_cols(selected_col_groups)

----------------------------------------------------------------------------
(* get_table *)

\* table.add_column(name, **attrs)
Column(col) == [header |-> col.name, attrs |-> col.attrs]

\* the loop of lines 108-111 over the keys from position i on
RECURSIVE add_columns(_, _)
add_columns(keys, i) ==
    IF i > Len(keys) THEN <<>>
    ELSE IF keys[i] \in DOMAIN column_spec_map      \* col is not None
         THEN <<Column(column_spec_map[keys[i]])>> \o add_columns(keys, i + 1)
         ELSE add_columns(keys, i + 1)

get_table ==
    [show_header |-> args.details.some,
     columns     |-> add_columns(get_columns, 1),
     rows        |-> <<>>]

----------------------------------------------------------------------------
(* write_output *)

\* data.get(col): a missing key renders as None
Get_no_default(data, col) == IF col \in DOMAIN data THEN data[col] ELSE "None"

\* data.get(col, "")
Get(data, col) == IF col \in DOMAIN data THEN data[col] ELSE ""

cells(data) == [i \in 1..Len(get_columns) |-> Get(data, get_columns[i])]

TableLine == "<table>"

ConfirmationLine == "Output written to file."

InitWith(D, A, E) ==
    /\ args \in ArgsOf(D, A, E)
    /\ platform \in Platforms
    /\ state \in [is_git_managed : BOOLEAN]
    /\ pc = "start"
    /\ table = [show_header |-> FALSE, columns |-> <<>>, rows |-> <<>>]
    /\ console = [record |-> args.export, printed |-> <<>>]
    /\ stdout = <<>>
    /\ out_file = [open |-> FALSE, created |-> FALSE, html |-> <<>>]
    /\ raised = FALSE
    /\ all_nodes = <<>>

Init == InitWith(BoundedDetails, BOOLEAN, BOOLEAN)

\* every args.details; get_table reads neither args.export nor, but for the
\* header of the name column, args.no_align
InitColumns == InitWith(AllDetails, {FALSE}, {FALSE})

\* line 122
GetTable ==
    /\ pc = "start"
    /\ table' = get_table
    /\ pc' = "fill"
    /\ UNCHANGED <<args, platform, state, console, stdout, out_file, raised,
                   all_nodes>>

\* one iteration of the loop of lines 124-128, on the next entry of all_nodes
AddRow ==
    /\ pc = "fill"
    /\ Len(all_nodes) < MaxNodes
    /\ \E node \in NodeRows :
        /\ table' = IF node.present
                    THEN [table EXCEPT !.rows = Append(@, cells(node.data))]
                    ELSE table
        /\ all_nodes' = Append(all_nodes, node)
    /\ UNCHANGED <<args, platform, state, pc, console, stdout, out_file, raised>>

\* line 130, after the last entry of all_nodes, and the test of line 132
Render ==
    /\ pc = "fill"
    /\ console' = [console EXCEPT !.printed = Append(@, table)]
    /\ stdout' = Append(stdout, TableLine)
    /\ pc' = IF args.export THEN "open" ELSE "done"
    /\ UNCHANGED <<args, platform, state, table, out_file, raised, all_nodes>>

\* line 142: args.export.open("w") succeeds and truncates the file
ExportOpen ==
    /\ pc = "open"
    /\ out_file' = [open |-> TRUE, created |-> TRUE, html |-> <<>>]
    /\ pc' = "write"
    /\ UNCHANGED <<args, platform, state, table, console, stdout, raised,
                   all_nodes>>

\* line 142: args.export.open("w") raises; no handle was acquired
ExportOpenFail ==
    /\ pc = "open"
    /\ raised' = TRUE
    /\ pc' = "raised"
    /\ UNCHANGED <<args, platform, state, table, console, stdout, out_file,
                   all_nodes>>

\* lines 143-147: the write succeeds and the with block closes the handle
ExportWrite ==
    /\ pc = "write"
    /\ console.record
    /\ out_file' = [out_file EXCEPT !.html = console.printed, !.open = FALSE]
    /\ pc' = "print"
    /\ UNCHANGED <<args, platform, state, table, console, stdout, raised,
                   all_nodes>>

\* the write raises with the handle opened outside a with block
ExportWriteFail_no_with ==
    /\ pc = "write"
    /\ raised' = TRUE
    /\ pc' = "raised"
    /\ UNCHANGED <<args, platform, state, table, console, stdout, out_file,
                   all_nodes>>

\* lines 143-147: the write raises; the with block closes the handle and
\* the exception leaves write_output
ExportWriteFail ==
    /\ pc = "write"
    /\ out_file' = [out_file EXCEPT !.open = FALSE]
    /\ raised' = TRUE
    /\ pc' = "raised"
    /\ UNCHANGED <<args, platform, state, table, console, stdout, all_nodes>>

\* line 148
PrintConfirmation ==
    /\ pc = "print"
    /\ stdout' = Append(stdout, ConfirmationLine)
    /\ pc' = "done"
    /\ UNCHANGED <<args, platform, state, table, console, out_file, raised,
                   all_nodes>>

Next ==
    \/ GetTable
    \/ AddRow
    \/ Render
    \/ ExportOpen
    \/ ExportOpenFail
    \/ ExportWrite
    \/ ExportWriteFail
    \/ PrintConfirmation

\* write_output on at most MaxNodes entries, args.details of at most
\* MaxDetails of the PipelineTokens
Spec == Init /\ [][Next]_vars

\* get_table (and with it get_columns) on every args.details
NextColumns == GetTable

SpecColumns == InitColumns /\ [][NextColumns]_vars

----------------------------------------------------------------------------
(* Properties *)

Range(seq) == {seq[i] : i \in 1..Len(seq)}

Count(seq, x) == Cardinality({i \in 1..Len(seq) : seq[i] = x})

\* the "+" token is in the detail selection
Wildcard == "+" \in args.details.toks

\* get_table, and with it get_columns, has run
Selected == pc # "start"

\* a column is asked for by the selection or granted by the wildcard
Requested(col) == details_truthy /\ (col \in args.details.toks \/ Wildcard)

DetailColumns ==
    {"inode", "links", "type", "perms", "user", "group", "size",
     "ctime", "mtime", "atime", "git"}

\* the candidate groups, as sets of keys
CandidateGroups ==
    {{"inode", "links"}, {"type", "perms"}, {"user", "group"}, {"size"},
     {"ctime", "mtime", "atime"}, {"git"}}

ScenarioB ==
    /\ details_truthy
    /\ Wildcard
    /\ platform # "win32"
    /\ ~state.is_git_managed
    /\ args.icon = "NONE"

\* C1 as stated: with the wildcard, ownership, no git and no icons the
\* columns are listed with [user, group] right after [size].
C1_UserGroupAfterSize ==
    (Selected /\ ScenarioB) =>
        get_columns = <<"inode", "links", "spacer", "type", "perms", "spacer",
                        "size", "spacer", "user", "group", "spacer",
                        "ctime", "mtime", "atime", "spacer", "name">>

\* C1 amended: with the wildcard, ownership, no git and no icons the
\* columns are listed with [user, group] right after [type, perms] and right
\* before [size].
C1_UserGroupBeforeSize ==
    (Selected /\ ScenarioB) =>
        get_columns = <<"inode", "links", "spacer", "type", "perms", "spacer",
                        "user", "group", "spacer", "size", "spacer",
                        "ctime", "mtime", "atime", "spacer", "name">>

C1_Witness ==
    /\ Selected
    /\ ScenarioB
    /\ {"user", "group", "size"} \subseteq Range(get_columns)

\* C2: the returned sequence never starts or ends with a spacer, never has
\* two spacers in a row, and holds one spacer per candidate group that kept
\* a column, so a group filtered to nothing adds neither columns nor spacer.
C2_SpacersOnlyBetweenGroups ==
    Selected =>
        LET cols == get_columns
            kept == {g \in CandidateGroups : g \cap Range(cols) # {}}
        IN  /\ Len(cols) >= 1
            /\ cols[1] # "spacer"
            /\ cols[Len(cols)] # "spacer"
            /\ \A i \in 1..(Len(cols) - 1) :
                    ~(cols[i] = "spacer" /\ cols[i + 1] = "spacer")
            /\ Count(cols, "spacer") = Cardinality(kept)

\* a group filtered to nothing lies between two groups that kept columns
C2_Witness ==
    /\ Selected
    /\ details_truthy
    /\ "inode" \in Range(get_columns)
    /\ "ctime" \in Range(get_columns)
    /\ {"type", "perms", "size"} \cap Range(get_columns) = {}

\* C3: without detail rendering the columns are exactly [name], or
\* [icon, name] with icons, on every platform and git status.
C3_NoDetailsOnlyName ==
    (Selected /\ ~details_truthy) =>
        get_columns = IF args.icon = "NONE" THEN <<"name">>
                      ELSE <<"icon", "name">>

C3_Witness ==
    /\ Selected
    /\ ~details_truthy
    /\ args.icon # "NONE"
    /\ state.is_git_managed
    /\ platform # "win32"
    /\ get_columns = <<"icon", "name">>

ScenarioC ==
    /\ args.details.some
    /\ args.details.toks = {"size", "perms"}
    /\ args.icon = "NONE"

\* C4 as stated: a selection of exactly size and perms brings type along
\* with perms; the columns are [type, perms], [size] and name, two spacers.
C4_TypeComesWithPerms ==
    (Selected /\ ScenarioC) =>
        /\ "type" \in Range(get_columns)
        /\ get_columns = <<"type", "perms", "spacer", "size", "spacer", "name">>

\* C4 amended: a selection of exactly size and perms does not bring type;
\* the columns are [perms], [size] and name, with exactly two spacers.
C4_TypeOnlyWhenRequested ==
    (Selected /\ ScenarioC) =>
        /\ "type" \notin Range(get_columns)
        /\ Count(get_columns, "spacer") = 2
        /\ get_columns = <<"perms", "spacer", "size", "spacer", "name">>

C4_Witness ==
    /\ Selected
    /\ ScenarioC
    /\ {"perms", "size"} \subseteq Range(get_columns)

\* C5: git is a column exactly when detail rendering is on, git is asked
\* for or granted by the wildcard, and the directory is git managed.
C5_GitGating ==
    Selected =>
        ("git" \in Range(get_columns)
            <=> (Requested("git") /\ state.is_git_managed))

C5_Witness ==
    /\ Selected
    /\ "git" \in Range(get_columns)
    /\ ~Wildcard

\* C6 as stated: the header of the table is shown exactly when detail
\* rendering is on, that is when get_columns considers the detail groups.
C6_HeaderIffDetails ==
    Selected => (table.show_header <=> details_truthy)

\* the row data of the entries that had one, in order
RowDatas ==
    LET present == SelectSeq(all_nodes, LAMBDA node : node.present)
    IN  [r \in 1..Len(present) |-> present[r].data]

\* C7: every entry with a RowData adds one row of len(get_columns()) cells;
\* cell i is the RowData value of key i, or "" when the key is not set, and
\* the value of a key that is not selected is in no cell.
C7_RowFollowsColumns ==
    Selected =>
        LET cols == get_columns
        IN  /\ Len(table.rows) = Len(RowDatas)
            /\ \A r \in 1..Len(table.rows) :
                LET row == table.rows[r]
                    data == RowDatas[r]
                IN  /\ Len(row) = Len(cols)
                    /\ \A i \in 1..Len(cols) :
                        row[i] = IF cols[i] \in DOMAIN data
                                 THEN CellValue(cols[i])
                                 ELSE ""
                    /\ \A key \in DOMAIN data \ Range(cols) :
                        data[key] \notin Range(row)

\* a row with a set cell, unset cells and a RowData key that is not selected
C7_Witness ==
    /\ Len(table.rows) >= 1
    /\ "v_name" \in Range(table.rows[1])
    /\ "" \in Range(table.rows[1])
    /\ "size" \in DOMAIN RowDatas[1]
    /\ "size" \notin Range(get_columns)
    /\ Len(table.rows[1]) > 1

Rendered == Len(console.printed) = 1

Confirmed == ConfirmationLine \in Range(stdout)

\* C8: the rows are filled before the render and the render comes before
\* the export; the file is touched only with an export destination and after
\* the render; the confirmation follows a successful write; a failed write
\* raises with the render done, no confirmation and the handle released.
C8_RenderThenExport ==
    /\ (pc \in {"start", "fill"} => stdout = <<>> /\ ~Rendered)
    /\ (pc \in {"open", "write", "print", "done", "raised"} =>
            /\ Rendered
            /\ console.printed[1] = table
            /\ stdout[1] = TableLine)
    /\ (out_file.created => args.export /\ Rendered)
    /\ (out_file.html # <<>> => out_file.html = console.printed)
    /\ (out_file.open => pc = "write")
    /\ (Confirmed =>
            /\ stdout = <<TableLine, ConfirmationLine>>
            /\ out_file.html = console.printed
            /\ ~out_file.open
            /\ ~raised)
    /\ (raised =>
            /\ pc = "raised"
            /\ args.export
            /\ Rendered
            /\ ~Confirmed
            /\ ~out_file.open
            /\ out_file.html = <<>>)
    /\ (pc = "done" => (Confirmed <=> args.export))

\* the write failed after the file was opened and a row was rendered
C8_Witness ==
    /\ raised
    /\ out_file.created
    /\ Len(table.rows) >= 1

\* C9: on win32 user and group are never columns; elsewhere each is a
\* column exactly when detail rendering is on and it is asked for or
\* granted by the wildcard.
C9_OwnershipByPlatform ==
    Selected =>
        \A col \in {"user", "group"} :
            IF platform = "win32"
            THEN col \notin Range(get_columns)
            ELSE col \in Range(get_columns) <=> Requested(col)

C9_Witness ==
    /\ Selected
    /\ platform = "win32"
    /\ {"user", "+"} \subseteq args.details.toks
    /\ "user" \notin Range(get_columns)

\* the header a key gets: its registry name, or none without an entry
HeaderOf(key) ==
    IF key \in DOMAIN column_spec_map THEN column_spec_map[key].name ELSE ""

\* C10: the table declares one column per key of get_columns, in order, so
\* every row has as many cells as there are declared columns.
C10_ColumnPerKey ==
    Selected =>
        LET cols == get_columns
        IN  /\ Len(table.columns) = Len(cols)
            /\ \A i \in 1..Len(table.columns) :
                    table.columns[i].header = HeaderOf(cols[i])
            /\ \A r \in 1..Len(table.rows) :
                    Len(table.rows[r]) = Len(table.columns)

C10_Witness ==
    /\ Selected
    /\ Len(table.rows) >= 1
    /\ {"spacer", "type", "icon"} \subseteq Range(get_columns)
    /\ Len(table.columns) = Len(table.rows[1])

TypeOK ==
    /\ pc \in {"start", "fill", "open", "write", "print", "done", "raised"}
    /\ Len(all_nodes) <= MaxNodes
    /\ raised \in BOOLEAN

====
